---- MODULE Spec2Model ----
(***************************************************************************)
(* CAN / CAN-FD frame model and bit-timing validator of                    *)
(* src/src/socket/mod.rs.                                                  *)
(*                                                                         *)
(* The types of the module are plain values; the state of the model is     *)
(* what a caller of the public interface holds: the call it made last      *)
(* (operation, arguments, returned value), two frame bindings and one      *)
(* timing binding.                                                         *)
(*                                                                         *)
(* Representation.  A u8 / u16 / usize is a natural number.  A u32 is the  *)
(* record [hi, lo] of its two 16-bit halves, since 2^32 - 1 is not an      *)
(* integer the model checker can hold.  A Rust slice or array is a         *)
(* sequence; Rust index i is sequence index i + 1.                         *)
(***************************************************************************)
EXTENDS Integers, Sequences, FiniteSets, TLC

VARIABLES
    call,     \* the last call of the caller: operation, arguments, result
    a,        \* first frame binding of the caller  (let mut a = ...)
    b,        \* second frame binding of the caller (let b = ...)
    timing    \* timing binding of the caller       (let mut timing = ...)

vars == <<call, a, b, timing>>

(***************************************************************************)
(* Bounds of the model.                                                    *)
(***************************************************************************)
\* payloads handed to CanFrame::new have 0..MaxClassicLen bytes
MaxClassicLen == 10
\* payloads handed to CanFdFrame::new have 0..MaxFdLen bytes
MaxFdLen == 66
\* lengths handed to CanFdFrame::calc_dlc go up to MaxCalcLen
MaxCalcLen == 100
\* timing parameters handed to the factories go up to their maximum + TimingOver
TimingOver == 1

(***************************************************************************)
(* Bit operations on naturals (Rust's & and | on unsigned integers).       *)
(***************************************************************************)
RECURSIVE BitAnd(_, _)
BitAnd(x, y) ==
    IF x = 0 \/ y = 0 THEN 0
    ELSE (x % 2) * (y % 2) + 2 * BitAnd(x \div 2, y \div 2)

RECURSIVE BitOr(_, _)
BitOr(x, y) ==
    IF x = 0 THEN y
    ELSE IF y = 0 THEN x
    ELSE (IF x % 2 = 1 \/ y % 2 = 1 THEN 1 ELSE 0) + 2 * BitOr(x \div 2, y \div 2)

\* a u32 from its two 16-bit halves
U32(hi, lo) == [hi |-> hi, lo |-> lo]

\* x & y on u32
U32And(x, y) == [hi |-> BitAnd(x.hi, y.hi), lo |-> BitAnd(x.lo, y.lo)]

\* len as u8
AsU8(n) == n % 256

(***************************************************************************)
(* Constants.                                                              *)
(***************************************************************************)
\* pub const STANDARD_MASK: u32 = 0x07_FF
STANDARD_MASK == U32(0, 2047)
\* pub const EXTENDED_MASK: u32 = 0x1F_FF_FF_FF
EXTENDED_MASK == U32(8191, 65535)

\* message-type flag bits of crate::peak_can
PEAK_MESSAGE_STANDARD == 0
PEAK_MESSAGE_EXTENDED == 2
PEAK_MESSAGE_FD == 4
PEAK_MESSAGE_BRS == 8
PEAK_MESSAGE_ECHO == 32
PEAK_MESSAGE_ERRFRAME == 64

\* CanFrame::MAX_DLC
MAX_DLC == 8
\* CanFdFrame::MAX_DATA_LENGTH
MAX_DATA_LENGTH == 64

MessageType == {"Standard", "Extended"}

(***************************************************************************)
(* Results.                                                                *)
(***************************************************************************)
Ok(v) == [tag |-> "Ok", val |-> v]
Err(e) == [tag |-> "Err", err |-> e]
IsOk(r) == r.tag = "Ok"
IsErr(r) == r.tag = "Err"

(***************************************************************************)
(* CanFrame.  A frame is the TPEAKMsg it wraps: ID, MSGTYPE, LEN, DATA.     *)
(***************************************************************************)
FrameData_Dirty(data, size) ==
    [i \in 1..size |-> IF i <= Len(data) THEN data[i] ELSE 255]

\* let mut frame_data: [u8; 8] = [0; 8]; for (i, v) in data ... frame_data[i] = *v
FrameData(data, size) ==
    [i \in 1..size |-> IF i <= Len(data) THEN data[i] ELSE 0]

CanFrame_new_OffByOne(can_id, msg_type, data) ==
    IF Len(data) >= MAX_DLC
    THEN Err("TooMuchData")
    ELSE Ok([kind |-> "CanFrame",
             ID |-> U32And(can_id, IF msg_type = "Standard" THEN STANDARD_MASK
                                                             ELSE EXTENDED_MASK),
             MSGTYPE |-> IF msg_type = "Standard" THEN PEAK_MESSAGE_STANDARD
                                                   ELSE PEAK_MESSAGE_EXTENDED,
             LEN |-> AsU8(Len(data)),
             DATA |-> FrameData(data, MAX_DLC)])

CanFrame_new_FullLen(can_id, msg_type, data) ==
    IF Len(data) > MAX_DLC
    THEN Err("TooMuchData")
    ELSE Ok([kind |-> "CanFrame",
             ID |-> U32And(can_id, IF msg_type = "Standard" THEN STANDARD_MASK
                                                             ELSE EXTENDED_MASK),
             MSGTYPE |-> IF msg_type = "Standard" THEN PEAK_MESSAGE_STANDARD
                                                   ELSE PEAK_MESSAGE_EXTENDED,
             LEN |-> MAX_DLC,
             DATA |-> FrameData(data, MAX_DLC)])

CanFrame_new(can_id, msg_type, data) ==
    IF Len(data) > MAX_DLC
    THEN Err("TooMuchData")
    ELSE IF msg_type = "Standard"
         THEN Ok([kind |-> "CanFrame",
                  ID |-> U32And(can_id, STANDARD_MASK),
                  MSGTYPE |-> PEAK_MESSAGE_STANDARD,
                  LEN |-> AsU8(Len(data)),
                  DATA |-> FrameData(data, MAX_DLC)])
         ELSE Ok([kind |-> "CanFrame",
                  ID |-> U32And(can_id, EXTENDED_MASK),
                  MSGTYPE |-> PEAK_MESSAGE_EXTENDED,
                  LEN |-> AsU8(Len(data)),
                  DATA |-> FrameData(data, MAX_DLC)])

CanFrame_is_extended_frame(f) == BitAnd(f.MSGTYPE, PEAK_MESSAGE_EXTENDED) # 0

CanFrame_is_standard_frame_FlagTest(f) == BitAnd(f.MSGTYPE, PEAK_MESSAGE_STANDARD) # 0

CanFrame_is_standard_frame(f) == ~CanFrame_is_extended_frame(f)

CanFrame_is_error_frame(f) == BitAnd(f.MSGTYPE, PEAK_MESSAGE_ERRFRAME) # 0

CanFrame_is_echo_frame(f) == BitAnd(f.MSGTYPE, PEAK_MESSAGE_ECHO) # 0

CanFrame_can_id(f) ==
    IF CanFrame_is_standard_frame(f)
    THEN U32And(f.ID, STANDARD_MASK)
    ELSE U32And(f.ID, EXTENDED_MASK)

CanFrame_dlc(f) == f.LEN

\* &self.frame.DATA[0..n] panics when n exceeds the buffer
SlicePanics(buf, n) == n > Len(buf)

Slice(buf, n) == SubSeq(buf, 1, n)

CanFrame_data_panics(f) == SlicePanics(f.DATA, CanFrame_dlc(f))

CanFrame_data(f) == Slice(f.DATA, CanFrame_dlc(f))

CanFrame_default == CanFrame_new(U32(0, 0), "Standard", <<>>).val

\* impl PartialEq for CanFrame: "panic" when a data() slice is out of bounds
CanFrame_eq(self, other) ==
    IF self.ID # other.ID THEN "false"
    ELSE IF self.LEN # other.LEN THEN "false"
    ELSE IF self.MSGTYPE # other.MSGTYPE THEN "false"
    ELSE IF CanFrame_data_panics(self) \/ CanFrame_data_panics(other) THEN "panic"
    ELSE IF CanFrame_data(self) # CanFrame_data(other) THEN "false"
    ELSE "true"

(***************************************************************************)
(* CanFdFrame.  A frame is the TPEAKMsgFD it wraps: ID, MSGTYPE, DLC, DATA. *)
(***************************************************************************)
CanFdFrame_calc_dlc_RoundDown(len) ==
    IF len <= 8 THEN AsU8(len)
    ELSE IF len < 12 THEN 8
    ELSE IF len < 16 THEN 9
    ELSE IF len < 20 THEN 10
    ELSE IF len < 24 THEN 11
    ELSE IF len < 32 THEN 12
    ELSE IF len < 48 THEN 13
    ELSE IF len < 64 THEN 14
    ELSE 15

CanFdFrame_calc_dlc_NoClamp(len) ==
    IF len <= 8 THEN AsU8(len)
    ELSE IF len <= 12 THEN 9
    ELSE IF len <= 16 THEN 10
    ELSE IF len <= 20 THEN 11
    ELSE IF len <= 24 THEN 12
    ELSE IF len <= 32 THEN 13
    ELSE IF len <= 48 THEN 14
    ELSE IF len <= 64 THEN 15
    ELSE AsU8(len)

CanFdFrame_calc_dlc(len) ==
    CASE len \in 0..8 -> AsU8(len)
      [] len \in 9..12 -> 9
      [] len \in 13..16 -> 10
      [] len \in 17..20 -> 11
      [] len \in 21..24 -> 12
      [] len \in 25..32 -> 13
      [] len \in 33..48 -> 14
      [] len \in 49..64 -> 15
      [] OTHER -> 15

\* the msg_type flag byte of CanFdFrame::new
FdMsgType_BrsNeedsFd(mode_flag, fd, brs) ==
    BitOr(mode_flag,
          IF fd THEN BitOr(PEAK_MESSAGE_FD, IF brs THEN PEAK_MESSAGE_BRS ELSE 0) ELSE 0)

FdMsgType(mode_flag, fd, brs) ==
    BitOr(mode_flag,
          BitOr(IF fd THEN PEAK_MESSAGE_FD ELSE 0,
                IF brs THEN PEAK_MESSAGE_BRS ELSE 0))

CanFdFrame_new_Clamp(can_id, msg_type, data, fd, brs) ==
    Ok([kind |-> "CanFdFrame",
        ID |-> U32And(can_id, IF msg_type = "Standard" THEN STANDARD_MASK
                                                        ELSE EXTENDED_MASK),
        MSGTYPE |-> FdMsgType(IF msg_type = "Standard" THEN PEAK_MESSAGE_STANDARD
                                                       ELSE PEAK_MESSAGE_EXTENDED,
                              fd, brs),
        DLC |-> CanFdFrame_calc_dlc(Len(data)),
        DATA |-> FrameData(data, MAX_DATA_LENGTH)])

CanFdFrame_new_NoMask(can_id, msg_type, data, fd, brs) ==
    IF Len(data) > MAX_DATA_LENGTH
    THEN Err("TooMuchData")
    ELSE Ok([kind |-> "CanFdFrame",
             ID |-> U32And(can_id, EXTENDED_MASK),
             MSGTYPE |-> FdMsgType(IF msg_type = "Standard" THEN PEAK_MESSAGE_STANDARD
                                                            ELSE PEAK_MESSAGE_EXTENDED,
                                   fd, brs),
             DLC |-> CanFdFrame_calc_dlc(Len(data)),
             DATA |-> FrameData(data, MAX_DATA_LENGTH)])

CanFdFrame_new(can_id, msg_type, data, fd, brs) ==
    IF Len(data) > MAX_DATA_LENGTH
    THEN Err("TooMuchData")
    ELSE IF msg_type = "Standard"
         THEN Ok([kind |-> "CanFdFrame",
                  ID |-> U32And(can_id, STANDARD_MASK),
                  MSGTYPE |-> FdMsgType(PEAK_MESSAGE_STANDARD, fd, brs),
                  DLC |-> CanFdFrame_calc_dlc(Len(data)),
                  DATA |-> FrameData(data, MAX_DATA_LENGTH)])
         ELSE Ok([kind |-> "CanFdFrame",
                  ID |-> U32And(can_id, EXTENDED_MASK),
                  MSGTYPE |-> FdMsgType(PEAK_MESSAGE_EXTENDED, fd, brs),
                  DLC |-> CanFdFrame_calc_dlc(Len(data)),
                  DATA |-> FrameData(data, MAX_DATA_LENGTH)])

CanFdFrame_is_standard_frame(f) == BitAnd(f.MSGTYPE, PEAK_MESSAGE_STANDARD) # 0

CanFdFrame_is_extended_frame(f) ==
    IF BitAnd(f.MSGTYPE, PEAK_MESSAGE_EXTENDED) # 0 THEN TRUE ELSE FALSE

CanFdFrame_is_error_frame(f) == BitAnd(f.MSGTYPE, PEAK_MESSAGE_ERRFRAME) # 0

CanFdFrame_is_echo_frame(f) == BitAnd(f.MSGTYPE, PEAK_MESSAGE_ECHO) # 0

CanFdFrame_is_fd_frame(f) == BitAnd(f.MSGTYPE, PEAK_MESSAGE_FD) # 0

CanFdFrame_can_id(f) ==
    IF CanFdFrame_is_standard_frame(f)
    THEN U32And(f.ID, STANDARD_MASK)
    ELSE U32And(f.ID, EXTENDED_MASK)

CanFdFrame_dlc(f) == f.DLC

CanFdFrame_len_NoClamp(f) ==
    IF CanFdFrame_dlc(f) <= 8 THEN CanFdFrame_dlc(f)
    ELSE IF CanFdFrame_dlc(f) = 9 THEN 12
    ELSE IF CanFdFrame_dlc(f) = 10 THEN 16
    ELSE IF CanFdFrame_dlc(f) = 11 THEN 20
    ELSE IF CanFdFrame_dlc(f) = 12 THEN 24
    ELSE IF CanFdFrame_dlc(f) = 13 THEN 32
    ELSE IF CanFdFrame_dlc(f) = 14 THEN 48
    ELSE IF CanFdFrame_dlc(f) = 15 THEN 64
    ELSE CanFdFrame_dlc(f)

CanFdFrame_len(f) ==
    CASE CanFdFrame_dlc(f) \in 0..8 -> CanFdFrame_dlc(f)
      [] CanFdFrame_dlc(f) = 9 -> 12
      [] CanFdFrame_dlc(f) = 10 -> 16
      [] CanFdFrame_dlc(f) = 11 -> 20
      [] CanFdFrame_dlc(f) = 12 -> 24
      [] CanFdFrame_dlc(f) = 13 -> 32
      [] CanFdFrame_dlc(f) = 14 -> 48
      [] CanFdFrame_dlc(f) = 15 -> 64
      [] OTHER -> 64

CanFdFrame_data_panics(f) == SlicePanics(f.DATA, CanFdFrame_len(f))

\* CanFdFrame::mut_data: &mut self.frame.DATA[0..len] panics when len exceeds the buffer
CanFdFrame_mut_data_panics(f) == SlicePanics(f.DATA, CanFdFrame_len(f))

CanFdFrame_data(f) == Slice(f.DATA, CanFdFrame_len(f))

CanFdFrame_is_empty(f) == CanFdFrame_len(f) = 0

CanFdFrame_default == CanFdFrame_new(U32(0, 0), "Standard", <<>>, FALSE, FALSE).val

\* impl PartialEq for CanFdFrame
CanFdFrame_eq(self, other) ==
    IF self.ID # other.ID THEN "false"
    ELSE IF self.DLC # other.DLC THEN "false"
    ELSE IF self.MSGTYPE # other.MSGTYPE THEN "false"
    ELSE IF CanFdFrame_data_panics(self) \/ CanFdFrame_data_panics(other) THEN "panic"
    ELSE IF CanFdFrame_data(self) # CanFdFrame_data(other) THEN "false"
    ELSE "true"

(***************************************************************************)
(* Bit timing.                                                             *)
(***************************************************************************)
CAN_TIMING_BOUNDARIES ==
    [prescaler_min |-> 1, prescaler_max |-> 64,
     sjw_min |-> 1, sjw_max |-> 4,
     tseg1_min |-> 1, tseg1_max |-> 16,
     tseg2_min |-> 1, tseg2_max |-> 8]

CANFD_TIMING_BOUNDARIES ==
    [nom_prescaler_min |-> 1, nom_prescaler_max |-> 1024,
     nom_sjw_min |-> 1, nom_sjw_max |-> 128,
     nom_tseg1_min |-> 1, nom_tseg1_max |-> 256,
     nom_tseg2_min |-> 1, nom_tseg2_max |-> 128,
     data_prescaler_min |-> 1, data_prescaler_max |-> 1024,
     data_sjw_min |-> 1, data_sjw_max |-> 16,
     data_tseg1_min |-> 1, data_tseg1_max |-> 32,
     data_tseg2_min |-> 1, data_tseg2_max |-> 16]

CanBitTiming_validate_Exclusive(t) ==
    IF t.prescaler < CAN_TIMING_BOUNDARIES.prescaler_min
       \/ t.prescaler > CAN_TIMING_BOUNDARIES.prescaler_max
    THEN FALSE
    ELSE IF t.sjw < CAN_TIMING_BOUNDARIES.sjw_min
            \/ t.sjw > CAN_TIMING_BOUNDARIES.sjw_max
    THEN FALSE
    ELSE IF t.tseg1 < CAN_TIMING_BOUNDARIES.tseg1_min
            \/ t.tseg1 >= CAN_TIMING_BOUNDARIES.tseg1_max
    THEN FALSE
    ELSE IF t.tseg2 < CAN_TIMING_BOUNDARIES.tseg2_min
            \/ t.tseg2 > CAN_TIMING_BOUNDARIES.tseg2_max
    THEN FALSE
    ELSE TRUE

CanBitTiming_validate(t) ==
    IF t.prescaler < CAN_TIMING_BOUNDARIES.prescaler_min
       \/ t.prescaler > CAN_TIMING_BOUNDARIES.prescaler_max
    THEN FALSE
    ELSE IF t.sjw < CAN_TIMING_BOUNDARIES.sjw_min
            \/ t.sjw > CAN_TIMING_BOUNDARIES.sjw_max
    THEN FALSE
    ELSE IF t.tseg1 < CAN_TIMING_BOUNDARIES.tseg1_min
            \/ t.tseg1 > CAN_TIMING_BOUNDARIES.tseg1_max
    THEN FALSE
    ELSE IF t.tseg2 < CAN_TIMING_BOUNDARIES.tseg2_min
            \/ t.tseg2 > CAN_TIMING_BOUNDARIES.tseg2_max
    THEN FALSE
    ELSE TRUE

CanBitTiming_new(prescaler, sjw, tseg1, tseg2) ==
    LET t == [kind |-> "CanBitTiming", prescaler |-> prescaler, sjw |-> sjw,
              tseg1 |-> tseg1, tseg2 |-> tseg2]
    IN  IF CanBitTiming_validate(t)
        THEN Ok(t)
        ELSE Err("Timing parameters are out of bounds")

CanFdBitTiming_validate_NoDataSjw(t) ==
    IF t.nom_prescaler < CANFD_TIMING_BOUNDARIES.nom_prescaler_min
       \/ t.nom_prescaler > CANFD_TIMING_BOUNDARIES.nom_prescaler_max
    THEN FALSE
    ELSE IF t.nom_sjw < CANFD_TIMING_BOUNDARIES.nom_sjw_min
            \/ t.nom_sjw > CANFD_TIMING_BOUNDARIES.nom_sjw_max
    THEN FALSE
    ELSE IF t.nom_tseg1 < CANFD_TIMING_BOUNDARIES.nom_tseg1_min
            \/ t.nom_tseg1 > CANFD_TIMING_BOUNDARIES.nom_tseg1_max
    THEN FALSE
    ELSE IF t.nom_tseg2 < CANFD_TIMING_BOUNDARIES.nom_tseg2_min
            \/ t.nom_tseg2 > CANFD_TIMING_BOUNDARIES.nom_tseg2_max
    THEN FALSE
    ELSE IF t.data_prescaler < CANFD_TIMING_BOUNDARIES.data_prescaler_min
            \/ t.data_prescaler > CANFD_TIMING_BOUNDARIES.data_prescaler_max
    THEN FALSE
    ELSE IF t.data_sjw < CANFD_TIMING_BOUNDARIES.data_sjw_min
            \/ t.data_sjw > CANFD_TIMING_BOUNDARIES.nom_sjw_max
    THEN FALSE
    ELSE IF t.data_tseg1 < CANFD_TIMING_BOUNDARIES.data_tseg1_min
            \/ t.data_tseg1 > CANFD_TIMING_BOUNDARIES.data_tseg1_max
    THEN FALSE
    ELSE IF t.data_tseg2 < CANFD_TIMING_BOUNDARIES.data_tseg2_min
            \/ t.data_tseg2 > CANFD_TIMING_BOUNDARIES.data_tseg2_max
    THEN FALSE
    ELSE TRUE

CanFdBitTiming_validate(t) ==
    IF t.nom_prescaler < CANFD_TIMING_BOUNDARIES.nom_prescaler_min
       \/ t.nom_prescaler > CANFD_TIMING_BOUNDARIES.nom_prescaler_max
    THEN FALSE
    ELSE IF t.nom_sjw < CANFD_TIMING_BOUNDARIES.nom_sjw_min
            \/ t.nom_sjw > CANFD_TIMING_BOUNDARIES.nom_sjw_max
    THEN FALSE
    ELSE IF t.nom_tseg1 < CANFD_TIMING_BOUNDARIES.nom_tseg1_min
            \/ t.nom_tseg1 > CANFD_TIMING_BOUNDARIES.nom_tseg1_max
    THEN FALSE
    ELSE IF t.nom_tseg2 < CANFD_TIMING_BOUNDARIES.nom_tseg2_min
            \/ t.nom_tseg2 > CANFD_TIMING_BOUNDARIES.nom_tseg2_max
    THEN FALSE
    ELSE IF t.data_prescaler < CANFD_TIMING_BOUNDARIES.data_prescaler_min
            \/ t.data_prescaler > CANFD_TIMING_BOUNDARIES.data_prescaler_max
    THEN FALSE
    ELSE IF t.data_sjw < CANFD_TIMING_BOUNDARIES.data_sjw_min
            \/ t.data_sjw > CANFD_TIMING_BOUNDARIES.data_sjw_max
    THEN FALSE
    ELSE IF t.data_tseg1 < CANFD_TIMING_BOUNDARIES.data_tseg1_min
            \/ t.data_tseg1 > CANFD_TIMING_BOUNDARIES.data_tseg1_max
    THEN FALSE
    ELSE IF t.data_tseg2 < CANFD_TIMING_BOUNDARIES.data_tseg2_min
            \/ t.data_tseg2 > CANFD_TIMING_BOUNDARIES.data_tseg2_max
    THEN FALSE
    ELSE TRUE

CanFdBitTiming_new(nom_prescaler, nom_sjw, nom_tseg1, nom_tseg2, data_prescaler, data_sjw, data_tseg1, data_tseg2) ==
    LET t == [kind |-> "CanFdBitTiming",
              nom_prescaler |-> nom_prescaler, nom_sjw |-> nom_sjw,
              nom_tseg1 |-> nom_tseg1, nom_tseg2 |-> nom_tseg2,
              data_prescaler |-> data_prescaler, data_sjw |-> data_sjw,
              data_tseg1 |-> data_tseg1, data_tseg2 |-> data_tseg2]
    IN  IF CanFdBitTiming_validate(t)
        THEN Ok(t)
        ELSE Err("Timing parameters are out of bounds")

(***************************************************************************)
(* Receive.  The native call is handed a default frame; it returns a       *)
(* status code and may have written the frame.  native = [code, wrote,     *)
(* msg] is one outcome of the native call.                                 *)
(***************************************************************************)
\* the status code of success
PEAK_ERROR_OK == 0

\* status codes CanOkError::try_from recognises as errors
KnownErrorCodes == {32, 64}

\* CanOkError::try_from(code)
CanOkError_try_from(code) ==
    IF code = PEAK_ERROR_OK THEN Ok([kind |-> "Ok"])
    ELSE IF code \in KnownErrorCodes THEN Ok([kind |-> "Err", err |-> code])
    ELSE Err("unrecognised code")

MatchStatus_Lenient(code, value) ==
    LET r == CanOkError_try_from(code)
    IN  IF IsOk(r) /\ (r.val.kind = "Ok" \/ r.val.err = 32) THEN Ok(value)
        ELSE IF IsOk(r) THEN Err([CanError |-> r.val.err])
        ELSE Err([CanError |-> "Unknown"])

MatchStatus_Unwrap(code, value) ==
    LET r == CanOkError_try_from(code)
    IN  IF IsErr(r) THEN [tag |-> "panic"]
        ELSE IF r.val.kind = "Ok" THEN Ok(value)
        ELSE Err([CanError |-> r.val.err])

\* match CanOkError::try_from(error_code) { ... }
MatchStatus(code, value) ==
    LET r == CanOkError_try_from(code)
    IN  IF IsOk(r) /\ r.val.kind = "Ok" THEN Ok(value)
        ELSE IF IsOk(r) THEN Err([CanError |-> r.val.err])
        ELSE Err([CanError |-> "Unknown"])

\* RecvCan::recv_frame
RecvCan_recv_frame(native) ==
    LET frame == IF native.wrote THEN native.msg ELSE CanFrame_default
    IN  MatchStatus(native.code, frame)

\* RecvCanFd::recv_fd_frame
RecvCanFd_recv_fd_frame(native) ==
    LET frame == IF native.wrote THEN native.msg ELSE CanFdFrame_default
    IN  MatchStatus(native.code, frame)

(***************************************************************************)
(* What the caller holds.                                                  *)
(***************************************************************************)
NoCall == [op |-> "none"]
NoFrame == [kind |-> "none"]
NoTiming == [kind |-> "none"]

Init ==
    /\ call = NoCall
    /\ a = NoFrame
    /\ b = NoFrame
    /\ timing = NoTiming

(***************************************************************************)
(* Inputs.                                                                 *)
(***************************************************************************)
\* 0, 0x123, 0x7FF, 0x800, 0x1EC57ED0, 0x1FFFFFFF, 0x20000000, 0xFFFFFFFF
CanIds ==
    {U32(0, 0), U32(0, 291), U32(0, 2047), U32(0, 2048), U32(7877, 32464),
     U32(8191, 65535), U32(8192, 0), U32(65535, 65535)}

\* the n bytes first, first + 1, ... (mod 256)
Payload(n, first) == [i \in 1..n |-> (first + i - 1) % 256]

PayloadFirstBytes == {0, 200}

ClassicPayloads == {Payload(n, s) : n \in 0..MaxClassicLen, s \in PayloadFirstBytes}

FdPayloads == {Payload(n, s) : n \in 0..MaxFdLen, s \in PayloadFirstBytes}

(***************************************************************************)
(* The caller's steps.                                                     *)
(***************************************************************************)
\* CanFrame::new(can_id, msg_type, &data)
CanFrameNew ==
    /\ call = NoCall
    /\ \E can_id \in CanIds, msg_type \in MessageType, data \in ClassicPayloads :
           call' = [op |-> "CanFrame::new", can_id |-> can_id, msg_type |-> msg_type,
                    data |-> data, ret |-> CanFrame_new(can_id, msg_type, data)]
    /\ UNCHANGED <<a, b, timing>>

\* CanFdFrame::new(can_id, msg_type, &data, fd, brs)
CanFdFrameNew ==
    /\ call = NoCall
    /\ \E can_id \in CanIds, msg_type \in MessageType, data \in FdPayloads,
          fd \in BOOLEAN, brs \in BOOLEAN :
           call' = [op |-> "CanFdFrame::new", can_id |-> can_id, msg_type |-> msg_type,
                    data |-> data, fd |-> fd, brs |-> brs,
                    ret |-> CanFdFrame_new(can_id, msg_type, data, fd, brs)]
    /\ UNCHANGED <<a, b, timing>>

\* the returned value goes out of scope
Drop ==
    /\ call # NoCall
    /\ ("pc" \in DOMAIN call) => call.pc = "done"
    /\ call' = NoCall
    /\ UNCHANGED <<a, b, timing>>

\* the values 0 ..= max + TimingOver of a classical timing parameter
UpTo(max) == 0..(max + TimingOver)

\* values at and around the two boundaries of an FD timing parameter
Around(min, max) == {min - 1, min, max} \cup ((max + 1)..(max + TimingOver))

\* CanBitTiming::new(prescaler, sjw, tseg1, tseg2)
CanBitTimingNew ==
    /\ call = NoCall
    /\ \E prescaler \in UpTo(CAN_TIMING_BOUNDARIES.prescaler_max),
          sjw \in UpTo(CAN_TIMING_BOUNDARIES.sjw_max),
          tseg1 \in UpTo(CAN_TIMING_BOUNDARIES.tseg1_max),
          tseg2 \in UpTo(CAN_TIMING_BOUNDARIES.tseg2_max) :
           call' = [op |-> "CanBitTiming::new",
                    args |-> <<prescaler, sjw, tseg1, tseg2>>,
                    ret |-> CanBitTiming_new(prescaler, sjw, tseg1, tseg2)]
    /\ UNCHANGED <<a, b, timing>>

\* CanFdBitTiming::new(nom_prescaler, ..., data_tseg2)
CanFdBitTimingNew ==
    /\ call = NoCall
    /\ \E np \in Around(CANFD_TIMING_BOUNDARIES.nom_prescaler_min,
                         CANFD_TIMING_BOUNDARIES.nom_prescaler_max),
          ns \in Around(CANFD_TIMING_BOUNDARIES.nom_sjw_min,
                         CANFD_TIMING_BOUNDARIES.nom_sjw_max),
          nt1 \in Around(CANFD_TIMING_BOUNDARIES.nom_tseg1_min,
                          CANFD_TIMING_BOUNDARIES.nom_tseg1_max),
          nt2 \in Around(CANFD_TIMING_BOUNDARIES.nom_tseg2_min,
                          CANFD_TIMING_BOUNDARIES.nom_tseg2_max),
          dp \in Around(CANFD_TIMING_BOUNDARIES.data_prescaler_min,
                         CANFD_TIMING_BOUNDARIES.data_prescaler_max),
          ds \in Around(CANFD_TIMING_BOUNDARIES.data_sjw_min,
                         CANFD_TIMING_BOUNDARIES.data_sjw_max),
          dt1 \in Around(CANFD_TIMING_BOUNDARIES.data_tseg1_min,
                          CANFD_TIMING_BOUNDARIES.data_tseg1_max),
          dt2 \in Around(CANFD_TIMING_BOUNDARIES.data_tseg2_min,
                          CANFD_TIMING_BOUNDARIES.data_tseg2_max) :
           call' = [op |-> "CanFdBitTiming::new",
                    args |-> <<np, ns, nt1, nt2, dp, ds, dt1, dt2>>,
                    ret |-> CanFdBitTiming_new(np, ns, nt1, nt2, dp, ds, dt1, dt2)]
    /\ UNCHANGED <<a, b, timing>>

(***************************************************************************)
(* Bindings.  let a = <frame>; let b = <frame>; a == b.                    *)
(***************************************************************************)
FewIds == {U32(0, 32), U32(0, 33)}

FewClassicPayloads == {<< >>, <<1>>, <<1, 2>>, <<1, 3>>}

FewFdPayloads == {<< >>, <<1, 2>>, <<1, 3>>, Payload(9, 1)}

\* what CAN_Read may return and write into the frame
NativeReads ==
    {[code |-> c, wrote |-> TRUE,
      msg |-> [kind |-> "CanFrame", ID |-> U32(0, 32), MSGTYPE |-> t, LEN |-> l,
               DATA |-> d]] :
        c \in {0, 32, 999}, t \in {0, 2}, l \in {1, 2, 9},
        d \in {<<1, 2, 0, 0, 0, 0, 0, 0>>, <<1, 2, 7, 0, 0, 0, 0, 0>>,
               <<1, 3, 0, 0, 0, 0, 0, 0>>}}
    \cup {[code |-> c, wrote |-> FALSE, msg |-> CanFrame_default] : c \in {0, 32, 999}}

\* what CAN_ReadFD may return and write into the frame
NativeReadsFd ==
    {[code |-> c, wrote |-> TRUE,
      msg |-> [kind |-> "CanFdFrame", ID |-> U32(0, 32), MSGTYPE |-> 0, DLC |-> l,
               DATA |-> d]] :
        c \in {0, 32, 999}, l \in {2, 9, 200},
        d \in {FrameData(<<1, 2>>, MAX_DATA_LENGTH),
               FrameData(<<1, 2, 7>>, MAX_DATA_LENGTH),
               FrameData(Payload(9, 1), MAX_DATA_LENGTH),
               FrameData(Payload(9, 1) \o <<0, 0, 0, 5>>, MAX_DATA_LENGTH),
               FrameData(Payload(9, 1) \o <<0, 0, 5>>, MAX_DATA_LENGTH)}}
    \cup {[code |-> c, wrote |-> FALSE, msg |-> CanFdFrame_default] : c \in {0, 32, 999}}

Binding(which) == IF which = "a" THEN a ELSE b

\* the caller is between calls and <which> is not bound yet
Free(which) == call = NoCall /\ Binding(which) = NoFrame

\* let <which> = f
Bind(which, f) ==
    /\ IF which = "a" THEN a' = f /\ b' = b ELSE b' = f /\ a' = a
    /\ UNCHANGED <<call, timing>>

\* let a = CanFrame::new(can_id, msg_type, &data).unwrap()
LetCanFrameNew ==
    \E which \in {"a", "b"} :
        /\ Free(which)
        /\ \E can_id \in FewIds, msg_type \in MessageType, data \in FewClassicPayloads :
               LET r == CanFrame_new(can_id, msg_type, data)
               IN  IsOk(r) /\ Bind(which, r.val)

\* let a = CanFdFrame::new(can_id, msg_type, &data, fd, brs).unwrap()
LetCanFdFrameNew ==
    \E which \in {"a", "b"} :
        /\ Free(which)
        /\ \E can_id \in FewIds, msg_type \in MessageType, data \in FewFdPayloads,
              fd \in BOOLEAN, brs \in BOOLEAN :
               LET r == CanFdFrame_new(can_id, msg_type, data, fd, brs)
               IN  IsOk(r) /\ Bind(which, r.val)

\* let a = socket.recv_frame()?
LetRecvFrame ==
    \E which \in {"a", "b"} :
        /\ Free(which)
        /\ \E native \in NativeReads :
               LET r == RecvCan_recv_frame(native)
               IN  IsOk(r) /\ Bind(which, r.val)

\* let a = socket.recv_fd_frame()?
LetRecvFdFrame ==
    \E which \in {"a", "b"} :
        /\ Free(which)
        /\ \E native \in NativeReadsFd :
               LET r == RecvCanFd_recv_fd_frame(native)
               IN  IsOk(r) /\ Bind(which, r.val)

\* the binding goes out of scope
Forget ==
    /\ call = NoCall
    /\ \E which \in {"a", "b"} :
           /\ Binding(which) # NoFrame
           /\ IF which = "a" THEN a' = NoFrame /\ b' = b ELSE b' = NoFrame /\ a' = a
    /\ UNCHANGED <<call, timing>>

\* a == b, both of one frame type
Compare ==
    /\ call = NoCall
    /\ a.kind = b.kind
    /\ a.kind \in {"CanFrame", "CanFdFrame"}
    /\ call' = [op |-> "==", self |-> a, other |-> b,
                ret |-> IF a.kind = "CanFrame" THEN CanFrame_eq(a, b)
                                              ELSE CanFdFrame_eq(a, b)]
    /\ UNCHANGED <<a, b, timing>>

(***************************************************************************)
(* Timing bindings.  The fields of CanBitTiming and CanFdBitTiming are     *)
(* pub: a caller can write a struct expression and assign to a field.      *)
(***************************************************************************)
\* values at and next to the two boundaries of a timing parameter
Edges(min, max) == {min - 1, min, max, max + 1}

B == CAN_TIMING_BOUNDARIES
FB == CANFD_TIMING_BOUNDARIES

\* the values tried for each field of a timing
FieldValues ==
    [CanBitTiming |->
        [prescaler |-> Edges(B.prescaler_min, B.prescaler_max),
         sjw |-> Edges(B.sjw_min, B.sjw_max),
         tseg1 |-> Edges(B.tseg1_min, B.tseg1_max),
         tseg2 |-> Edges(B.tseg2_min, B.tseg2_max)],
     CanFdBitTiming |->
        [nom_prescaler |-> Edges(FB.nom_prescaler_min, FB.nom_prescaler_max),
         nom_sjw |-> Edges(FB.nom_sjw_min, FB.nom_sjw_max),
         nom_tseg1 |-> Edges(FB.nom_tseg1_min, FB.nom_tseg1_max),
         nom_tseg2 |-> Edges(FB.nom_tseg2_min, FB.nom_tseg2_max),
         data_prescaler |-> Edges(FB.data_prescaler_min, FB.data_prescaler_max),
         data_sjw |-> Edges(FB.data_sjw_min, FB.data_sjw_max),
         data_tseg1 |-> Edges(FB.data_tseg1_min, FB.data_tseg1_max),
         data_tseg2 |-> Edges(FB.data_tseg2_min, FB.data_tseg2_max)]]

\* let mut timing = CanBitTiming::new(prescaler, sjw, tseg1, tseg2)?
LetCanBitTimingNew ==
    /\ call = NoCall
    /\ timing = NoTiming
    /\ \E prescaler \in FieldValues.CanBitTiming.prescaler,
          sjw \in FieldValues.CanBitTiming.sjw,
          tseg1 \in FieldValues.CanBitTiming.tseg1,
          tseg2 \in FieldValues.CanBitTiming.tseg2 :
           LET r == CanBitTiming_new(prescaler, sjw, tseg1, tseg2)
           IN  IsOk(r) /\ timing' = r.val
    /\ UNCHANGED <<call, a, b>>

\* let mut timing = CanFdBitTiming::new(nom_prescaler, ..., data_tseg2)?
LetCanFdBitTimingNew ==
    /\ call = NoCall
    /\ timing = NoTiming
    /\ \E np \in FieldValues.CanFdBitTiming.nom_prescaler,
          ns \in FieldValues.CanFdBitTiming.nom_sjw,
          nt1 \in FieldValues.CanFdBitTiming.nom_tseg1,
          nt2 \in FieldValues.CanFdBitTiming.nom_tseg2,
          dp \in FieldValues.CanFdBitTiming.data_prescaler,
          ds \in FieldValues.CanFdBitTiming.data_sjw,
          dt1 \in FieldValues.CanFdBitTiming.data_tseg1,
          dt2 \in FieldValues.CanFdBitTiming.data_tseg2 :
           LET r == CanFdBitTiming_new(np, ns, nt1, nt2, dp, ds, dt1, dt2)
           IN  IsOk(r) /\ timing' = r.val
    /\ UNCHANGED <<call, a, b>>

\* let mut timing = CanBitTiming { prescaler, sjw, tseg1, tseg2 }
CanBitTimingLiteral ==
    /\ call = NoCall
    /\ timing = NoTiming
    /\ \E prescaler \in FieldValues.CanBitTiming.prescaler,
          sjw \in FieldValues.CanBitTiming.sjw,
          tseg1 \in FieldValues.CanBitTiming.tseg1,
          tseg2 \in FieldValues.CanBitTiming.tseg2 :
           timing' = [kind |-> "CanBitTiming", prescaler |-> prescaler, sjw |-> sjw,
                      tseg1 |-> tseg1, tseg2 |-> tseg2]
    /\ UNCHANGED <<call, a, b>>

\* timing.<field> = value
AssignTimingField ==
    /\ call = NoCall
    /\ timing # NoTiming
    /\ \E field \in DOMAIN FieldValues[timing.kind] :
           \E value \in FieldValues[timing.kind][field] :
               timing' = [timing EXCEPT ![field] = value]
    /\ UNCHANGED <<call, a, b>>

\* the timing binding goes out of scope
ForgetTiming ==
    /\ call = NoCall
    /\ timing # NoTiming
    /\ timing' = NoTiming
    /\ UNCHANGED <<call, a, b>>

(***************************************************************************)
(* Dispatch.  The six operations of the capability traits are the same     *)
(* three statements: take the frame (a default one to receive into, the    *)
(* argument to send), call the entry point of the native library with the  *)
(* transport's handle, match the status code.  A call in progress is the   *)
(* record [op, handle, pc, frame, timestamp, native_calls, out,            *)
(* error_code, ret]: its locals, the native calls it has made so far, the  *)
(* outcome of the last of them and, at pc = "done", what it returned.      *)
(***************************************************************************)
\* handles of the transports the caller holds (Socket::handle)
Handles == {81, 1281}

\* crate::peak_lib(): the process-wide library handle, loaded before any
\* transport was opened
peak_lib == Ok("PEAK_LIB")

\* impl Default for Timestamp
Timestamp_default == [micros |-> 0, millis |-> 0, millis_overflow |-> 0]

\* the local of an operation that has no timestamp (it passes a null pointer)
NoTimestamp == [kind |-> "none"]
NoCode == [kind |-> "none"]
NoRet == [tag |-> "none"]
NoOutcome == [wrote |-> FALSE]

\* a call that has just been entered, with its locals
Enter(op, handle, frame, timestamp) ==
    [op |-> op, handle |-> handle, pc |-> "native", frame |-> frame,
     timestamp |-> timestamp, native_calls |-> << >>, out |-> NoOutcome,
     error_code |-> NoCode, ret |-> NoRet]

\* the entry point of the native library an operation calls
EntryPoint(op) ==
    CASE op \in {"recv", "recv_frame"} -> "CAN_Read"
      [] op \in {"recv_fd", "recv_fd_frame"} -> "CAN_ReadFD"
      [] op = "send" -> "CAN_Write"
      [] op = "send_fd" -> "CAN_WriteFD"

\* the operations that hand the native call a timestamp pointer that is not null
HasTimestamp(op) == op \in {"recv", "recv_fd"}

\* the native call of the operation: what it was handed
NativeCallOf(c) ==
    [entry |-> EntryPoint(c.op), handle |-> c.handle, msg |-> c.frame,
     timestamp |-> HasTimestamp(c.op)]

\* the locals after the native call returned <out>
Written(c, out) ==
    [c EXCEPT !.out = out,
              !.error_code = out.code,
              !.frame = IF out.wrote THEN out.msg ELSE @,
              !.timestamp = IF HasTimestamp(c.op) /\ out.wrote THEN out.timestamp ELSE @]

UnsafeBlock_Retry(c, out) ==
    IF IsErr(peak_lib)
    THEN [c EXCEPT !.pc = "done", !.ret = Err(peak_lib.err)]
    ELSE [Written(c, out) EXCEPT
              !.pc = "match",
              !.native_calls = IF out.code = 0 THEN Append(@, NativeCallOf(c))
                               ELSE Append(Append(@, NativeCallOf(c)), NativeCallOf(c))]

\* let error_code = unsafe { peak_lib()?.CAN_Read(self.handle(), &mut frame.frame, ..) }
UnsafeBlock(c, out) ==
    IF IsErr(peak_lib)
    THEN [c EXCEPT !.pc = "done", !.ret = Err(peak_lib.err)]
    ELSE [Written(c, out) EXCEPT !.pc = "match",
                                 !.native_calls = Append(@, NativeCallOf(c))]

\* the value of the Ok arm of an operation
OkValue(c) ==
    CASE c.op \in {"recv", "recv_fd"} -> <<c.frame, c.timestamp>>
      [] c.op \in {"recv_frame", "recv_fd_frame"} -> c.frame
      [] c.op \in {"send", "send_fd"} -> << >>

\* match CanOkError::try_from(error_code) { ... }: the operation returns
MatchArms(c) ==
    [c EXCEPT !.pc = "done", !.ret = MatchStatus(c.error_code, OkValue(c))]

\* the status codes the native library returns
StatusCodes == {PEAK_ERROR_OK} \cup KnownErrorCodes \cup {999, 65535}

Bytes == 0..255

\* timestamps CAN_Read writes
Timestamps ==
    {[micros |-> 7, millis |-> 1000, millis_overflow |-> 0],
     [micros |-> 999, millis |-> 5, millis_overflow |-> 1]}

\* the TPEAKMsg values CAN_Read writes: every flag byte, every length byte
ReadMsgs ==
    {[kind |-> "CanFrame", ID |-> id, MSGTYPE |-> t, LEN |-> 2,
      DATA |-> <<1, 2, 0, 0, 0, 0, 0, 0>>] : id \in CanIds, t \in Bytes}
    \cup
    {[kind |-> "CanFrame", ID |-> U32(0, 32), MSGTYPE |-> t, LEN |-> l,
      DATA |-> d] :
        t \in {0, 2}, l \in Bytes,
        d \in {<<1, 2, 0, 0, 0, 0, 0, 0>>, <<1, 2, 3, 4, 5, 6, 7, 8>>}}

\* the outcomes of CAN_Read
ReadOutcomes ==
    {[code |-> c, wrote |-> TRUE, msg |-> m, timestamp |-> ts] :
        c \in {PEAK_ERROR_OK}, m \in ReadMsgs, ts \in Timestamps}
    \cup
    {[code |-> c, wrote |-> w, msg |-> m, timestamp |-> ts] :
        c \in StatusCodes, w \in BOOLEAN,
        m \in {mm \in ReadMsgs : mm.MSGTYPE \in {0, 2} /\ mm.LEN \in {2, 9}
                                  /\ mm.ID \in {U32(0, 32), U32(0, 2048)}},
        ts \in Timestamps}

\* flag bytes CAN_ReadFD writes: every combination of the six flag bits in use
FdFlagBytes == {t \in Bytes : BitAnd(t, 145) = 0}

\* the TPEAKMsgFD values CAN_ReadFD writes: flag bytes, every DLC byte
ReadFdMsgs ==
    {[kind |-> "CanFdFrame", ID |-> id, MSGTYPE |-> t, DLC |-> 2,
      DATA |-> FrameData(<<1, 2>>, MAX_DATA_LENGTH)] : id \in CanIds, t \in FdFlagBytes}
    \cup
    {[kind |-> "CanFdFrame", ID |-> U32(0, 32), MSGTYPE |-> t, DLC |-> l,
      DATA |-> FrameData(Payload(20, 1), MAX_DATA_LENGTH)] : t \in {0, 2}, l \in Bytes}

\* timestamps CAN_ReadFD writes (u64 microseconds)
FdTimestamps == {1, 1000000}

\* the outcomes of CAN_ReadFD
ReadFdOutcomes ==
    {[code |-> c, wrote |-> TRUE, msg |-> m, timestamp |-> ts] :
        c \in {PEAK_ERROR_OK}, m \in ReadFdMsgs, ts \in FdTimestamps}
    \cup
    {[code |-> c, wrote |-> w, msg |-> m, timestamp |-> ts] :
        c \in StatusCodes, w \in BOOLEAN,
        m \in {mm \in ReadFdMsgs : mm.MSGTYPE \in {0, 2} /\ mm.DLC \in {2, 9}
                                    /\ mm.ID \in {U32(0, 32), U32(0, 2048)}},
        ts \in FdTimestamps}

\* the outcomes of CAN_Write and CAN_WriteFD: a status code
WriteOutcomes ==
    {[code |-> c, wrote |-> FALSE] : c \in StatusCodes}

\* the outcomes of the native call of an operation
NativeOutcomes(op) ==
    CASE op \in {"recv", "recv_frame"} -> ReadOutcomes
      [] op \in {"recv_fd", "recv_fd_frame"} -> ReadFdOutcomes
      [] op \in {"send", "send_fd"} -> WriteOutcomes

\* frames the caller sends
SentFrames ==
    {CanFrame_new(U32(0, 291), "Standard", <<0, 1, 2>>).val}
    \cup {CanFrame_new(id, t, d).val :
             id \in FewIds, t \in MessageType, d \in FewClassicPayloads}

SentFdFrames ==
    {CanFdFrame_new(id, t, d, fd, brs).val :
        id \in FewIds, t \in MessageType, d \in FewFdPayloads,
        fd \in BOOLEAN, brs \in BOOLEAN}

\* socket.recv()
Recv ==
    /\ call = NoCall
    /\ \E handle \in Handles :
           call' = Enter("recv", handle, CanFrame_default, Timestamp_default)
    /\ UNCHANGED <<a, b, timing>>

\* socket.recv_frame()
RecvFrame ==
    /\ call = NoCall
    /\ \E handle \in Handles :
           call' = Enter("recv_frame", handle, CanFrame_default, NoTimestamp)
    /\ UNCHANGED <<a, b, timing>>

\* socket.recv_fd()
RecvFd ==
    /\ call = NoCall
    /\ \E handle \in Handles :
           call' = Enter("recv_fd", handle, CanFdFrame_default, 0)
    /\ UNCHANGED <<a, b, timing>>

\* socket.recv_fd_frame()
RecvFdFrame ==
    /\ call = NoCall
    /\ \E handle \in Handles :
           call' = Enter("recv_fd_frame", handle, CanFdFrame_default, NoTimestamp)
    /\ UNCHANGED <<a, b, timing>>

\* socket.send(frame)
Send ==
    /\ call = NoCall
    /\ \E handle \in Handles, frame \in SentFrames :
           call' = Enter("send", handle, frame, NoTimestamp)
    /\ UNCHANGED <<a, b, timing>>

\* socket.send_fd(frame)
SendFd ==
    /\ call = NoCall
    /\ \E handle \in Handles, frame \in SentFdFrames :
           call' = Enter("send_fd", handle, frame, NoTimestamp)
    /\ UNCHANGED <<a, b, timing>>

InDispatch == "pc" \in DOMAIN call

\* the operation makes its native call, which returns one of its outcomes
NativeCall ==
    /\ InDispatch
    /\ call.pc = "native"
    /\ \E out \in NativeOutcomes(call.op) : call' = UnsafeBlock(call, out)
    /\ UNCHANGED <<a, b, timing>>

\* the operation matches the status code and returns
Return ==
    /\ InDispatch
    /\ call.pc = "match"
    /\ call' = MatchArms(call)
    /\ UNCHANGED <<a, b, timing>>

(***************************************************************************)
(* Frame construction: the caller constructs frames and looks at them.     *)
(***************************************************************************)
NextNew == CanFrameNew \/ CanFdFrameNew \/ Drop

SpecNew == Init /\ [][NextNew]_vars

(***************************************************************************)
(* Timing construction: the caller calls the two timing factories.         *)
(***************************************************************************)
NextTiming == CanBitTimingNew \/ CanFdBitTimingNew \/ Drop

SpecTiming == Init /\ [][NextTiming]_vars

(***************************************************************************)
(* Frames in use: the caller binds frames it constructed or received and   *)
(* compares them.                                                          *)
(***************************************************************************)
NextFrames ==
    \/ LetCanFrameNew
    \/ LetCanFdFrameNew
    \/ LetRecvFrame
    \/ LetRecvFdFrame
    \/ Forget
    \/ Compare
    \/ Drop

SpecFrames == Init /\ [][NextFrames]_vars

(***************************************************************************)
(* Timings in use: the caller binds a timing and works on it.              *)
(***************************************************************************)
NextTimingUse ==
    \/ LetCanBitTimingNew
    \/ LetCanFdBitTimingNew
    \/ CanBitTimingLiteral
    \/ AssignTimingField
    \/ ForgetTiming

SpecTimingUse == Init /\ [][NextTimingUse]_vars

(***************************************************************************)
(* Writing a frame in place.  mut_data() lends the bytes [0, dlc) of the   *)
(* buffer; the caller writes through the slice it got.                     *)
(***************************************************************************)
CanFrame_mut_data_WholeBuffer(f) == Len(f.DATA)

\* CanFrame::mut_data: the number of bytes of the slice &mut DATA[0..dlc]
CanFrame_mut_data(f) == CanFrame_dlc(f)

CanFrame_mut_data_panics(f) == SlicePanics(f.DATA, CanFrame_dlc(f))

\* frame.mut_data()[index] = value: the frame afterwards, or a panic when the
\* slice cannot be made or the index is outside the slice
WriteMutData(f, index, value) ==
    IF CanFrame_mut_data_panics(f) \/ index >= CanFrame_mut_data(f)
    THEN Err("panic")
    ELSE Ok([f EXCEPT !.DATA[index + 1] = value])

\* the frames the caller writes to: CanFrame::default() and frames of
\* CanFrame::new with payloads of 0, 2 and 8 bytes
MutFrames ==
    {CanFrame_default}
    \cup {CanFrame_new(U32(0, 291), t, d).val :
             t \in MessageType, d \in {<< >>, <<1, 2>>, Payload(8, 1)}}

\* the indices written: the first bytes, the last byte of the buffer, one past it
WrittenIndices == {0, 1, 2, MAX_DLC - 1, MAX_DLC}

\* let mut a = CanFrame::new(..).unwrap()  /  let mut a = CanFrame::default()
LetMutFrame ==
    /\ call = NoCall
    /\ a = NoFrame
    /\ \E f \in MutFrames : a' = f
    /\ UNCHANGED <<call, b, timing>>

\* let b = a  (CanFrame is Copy)
CopyFrame ==
    /\ call = NoCall
    /\ a # NoFrame
    /\ b = NoFrame
    /\ b' = a
    /\ UNCHANGED <<call, a, timing>>

\* a.mut_data()[index] = 255
MutDataWrite ==
    /\ call = NoCall
    /\ a # NoFrame
    /\ \E index \in WrittenIndices :
           LET r == WriteMutData(a, index, 255)
           IN  IF IsOk(r)
               THEN a' = r.val /\ call' = call
               ELSE a' = a /\ call' = [op |-> "mut_data", index |-> index, ret |-> r]
    /\ UNCHANGED <<b, timing>>

NextMutData == LetMutFrame \/ CopyFrame \/ MutDataWrite \/ Forget \/ Drop

SpecMutData == Init /\ [][NextMutData]_vars

(***************************************************************************)
(* The DLC codec on its own: calc_dlc is called with a length, len() on a  *)
(* frame holding a DLC byte.                                               *)
(***************************************************************************)
\* CanFdFrame::calc_dlc(len)
CalcDlc ==
    /\ call = NoCall
    /\ \E len \in 0..MaxCalcLen :
           call' = [op |-> "calc_dlc", len |-> len, ret |-> CanFdFrame_calc_dlc(len)]
    /\ UNCHANGED <<a, b, timing>>

\* frame.len() of a frame holding the DLC byte dlc
FrameLen ==
    /\ call = NoCall
    /\ \E dlc \in Bytes :
           call' = [op |-> "len", dlc |-> dlc,
                    ret |-> CanFdFrame_len([CanFdFrame_default EXCEPT !.DLC = dlc])]
    /\ UNCHANGED <<a, b, timing>>

NextCodec == CalcDlc \/ FrameLen \/ Drop

SpecCodec == Init /\ [][NextCodec]_vars

(***************************************************************************)
(* The socket: the caller constructs frames and calls the operations of    *)
(* the capability traits.                                                  *)
(***************************************************************************)
NextSocket ==
    \/ CanFrameNew
    \/ CanFdFrameNew
    \/ Recv
    \/ RecvFrame
    \/ RecvFd
    \/ RecvFdFrame
    \/ Send
    \/ SendFd
    \/ NativeCall
    \/ Return
    \/ Drop

SpecSocket == Init /\ [][NextSocket]_vars

(***************************************************************************)
(* Every step of the caller.                                               *)
(***************************************************************************)
Next ==
    NextNew \/ NextTiming \/ NextFrames \/ NextTimingUse \/ NextMutData \/ NextCodec
    \/ NextSocket

Spec == Init /\ [][Next]_vars

(***************************************************************************)
(* Claims about construction, checked under SpecNew.                       *)
(***************************************************************************)
IsCanFrameNew == call.op = "CanFrame::new"
IsCanFdFrameNew == call.op = "CanFdFrame::new"

\* C1: for every identifier, both modes and every payload of 0..=8 bytes,
\* CanFrame::new succeeds and the frame's data() is the payload (same bytes,
\* same order, same length) and its dlc() is the payload's length.
C1_ClassicPayloadRoundTrip ==
    (IsCanFrameNew /\ Len(call.data) <= 8) =>
        /\ IsOk(call.ret)
        /\ ~CanFrame_data_panics(call.ret.val)
        /\ CanFrame_data(call.ret.val) = call.data
        /\ CanFrame_dlc(call.ret.val) = Len(call.data)

C1_Witness ==
    /\ IsCanFrameNew
    /\ Len(call.data) = 5
    /\ call.data[5] = 204
    /\ call.msg_type = "Extended"
    /\ IsOk(call.ret)
    /\ CanFrame_data(call.ret.val) = <<200, 201, 202, 203, 204>>

\* C2: CanFrame::new fails with TooMuchData exactly when the payload has more
\* than 8 bytes, whatever the identifier and the mode (8 bytes succeed, 9
\* fail), and a failed construction returns no frame.
C2_ClassicTooMuchData ==
    IsCanFrameNew =>
        /\ (call.ret = Err("TooMuchData")) <=> (Len(call.data) > 8)
        /\ IsOk(call.ret) <=> (Len(call.data) <= 8)
        /\ IsErr(call.ret) => "val" \notin DOMAIN call.ret
        /\ IsOk(call.ret) => call.ret.val.kind = "CanFrame"

C2_Witness ==
    /\ IsCanFrameNew
    /\ Len(call.data) = 9
    /\ call.ret = Err("TooMuchData")

\* the mask of a mode
ModeMask(msg_type) == IF msg_type = "Standard" THEN U32(0, 2047) ELSE U32(8191, 65535)

\* C3: a frame of either type constructed with mode Standard reports
\* can_id() = identifier & 0x7FF, one constructed with mode Extended reports
\* can_id() = identifier & 0x1FFFFFFF; no identifier is rejected (0x1EC57ED0
\* gives 0x06D0 in Standard mode and 0x1EC57ED0 in Extended mode).
C3_IdentifierMasked ==
    /\ IsCanFrameNew =>
          /\ Len(call.data) <= 8 => IsOk(call.ret)
          /\ IsOk(call.ret) =>
                CanFrame_can_id(call.ret.val) = U32And(call.can_id, ModeMask(call.msg_type))
          /\ (IsOk(call.ret) /\ call.can_id = U32(7877, 32464)) =>
                CanFrame_can_id(call.ret.val) =
                    IF call.msg_type = "Standard" THEN U32(0, 1744) ELSE U32(7877, 32464)
    /\ IsCanFdFrameNew =>
          /\ Len(call.data) <= 64 => IsOk(call.ret)
          /\ IsOk(call.ret) =>
                CanFdFrame_can_id(call.ret.val) = U32And(call.can_id, ModeMask(call.msg_type))
          /\ (IsOk(call.ret) /\ call.can_id = U32(7877, 32464)) =>
                CanFdFrame_can_id(call.ret.val) =
                    IF call.msg_type = "Standard" THEN U32(0, 1744) ELSE U32(7877, 32464)

C3_Witness ==
    /\ IsCanFdFrameNew
    /\ call.can_id = U32(65535, 65535)
    /\ call.msg_type = "Standard"
    /\ IsOk(call.ret)
    /\ CanFdFrame_can_id(call.ret.val) = U32(0, 2047)

\* the lengths a DLC can stand for
RepresentableLengths == (0..8) \cup {12, 16, 20, 24, 32, 48, 64}

\* the smallest representable length >= n
RoundUp(n) ==
    CHOOSE m \in RepresentableLengths :
        /\ m >= n
        /\ \A k \in RepresentableLengths : k >= n => m <= k

\* C4: for every payload length n in 0..=64 the frame built by CanFdFrame::new
\* reports len() = the smallest member of {0..8,12,16,20,24,32,48,64} that is
\* >= n, which is n itself when n is a member.
C4_DlcRoundUp ==
    (IsCanFdFrameNew /\ Len(call.data) <= 64) =>
        /\ IsOk(call.ret)
        /\ call.ret.val.DLC = CanFdFrame_calc_dlc(Len(call.data))
        /\ CanFdFrame_len(call.ret.val) = RoundUp(Len(call.data))
        /\ Len(call.data) \in RepresentableLengths =>
              CanFdFrame_len(call.ret.val) = Len(call.data)

C4_Witness ==
    /\ IsCanFdFrameNew
    /\ Len(call.data) = 25
    /\ IsOk(call.ret)
    /\ CanFdFrame_dlc(call.ret.val) = 13
    /\ CanFdFrame_len(call.ret.val) = 32

\* C5: CanFdFrame::new fails with TooMuchData exactly when the payload has more
\* than 64 bytes, whatever the identifier, mode, fd and brs (64 bytes succeed,
\* 65 fail); a longer payload is rejected, never clamped to DLC 15.
C5_FdTooMuchData ==
    IsCanFdFrameNew =>
        /\ (call.ret = Err("TooMuchData")) <=> (Len(call.data) > 64)
        /\ IsOk(call.ret) <=> (Len(call.data) <= 64)
        /\ IsErr(call.ret) => "val" \notin DOMAIN call.ret

C5_Witness ==
    /\ IsCanFdFrameNew
    /\ Len(call.data) = 65
    /\ call.fd /\ call.brs
    /\ call.ret = Err("TooMuchData")

\* C6: for every payload p of n <= 64 bytes the frame f of CanFdFrame::new has
\* data().len() = len() = decode(dlc()) >= n, the first n bytes of data() are
\* p, every later byte of data() is zero, and is_empty() holds exactly when
\* n = 0.
C6_FdPayloadPadded ==
    (IsCanFdFrameNew /\ Len(call.data) <= 64) =>
        /\ IsOk(call.ret)
        /\ ~CanFdFrame_data_panics(call.ret.val)
        /\ Len(CanFdFrame_data(call.ret.val)) = CanFdFrame_len(call.ret.val)
        /\ CanFdFrame_len(call.ret.val) >= Len(call.data)
        /\ \A i \in 1..Len(call.data) : CanFdFrame_data(call.ret.val)[i] = call.data[i]
        /\ \A i \in (Len(call.data) + 1)..Len(CanFdFrame_data(call.ret.val)) :
              CanFdFrame_data(call.ret.val)[i] = 0
        /\ CanFdFrame_is_empty(call.ret.val) <=> (Len(call.data) = 0)

C6_Witness ==
    /\ IsCanFdFrameNew
    /\ Len(call.data) = 9
    /\ call.data[9] = 208
    /\ IsOk(call.ret)
    /\ Len(CanFdFrame_data(call.ret.val)) = 12
    /\ CanFdFrame_data(call.ret.val)[9] = 208
    /\ CanFdFrame_data(call.ret.val)[12] = 0

(***************************************************************************)
(* Claims about the timing factories, checked under SpecTiming.            *)
(***************************************************************************)
IsCanBitTimingNew == call.op = "CanBitTiming::new"
IsCanFdBitTimingNew == call.op = "CanFdBitTiming::new"

\* the classical boundary table as the claim states it
InClassicalRanges(x) ==
    /\ 1 <= x[1] /\ x[1] <= 64
    /\ 1 <= x[2] /\ x[2] <= 4
    /\ 1 <= x[3] /\ x[3] <= 16
    /\ 1 <= x[4] /\ x[4] <= 8

\* C8: CanBitTiming::new(prescaler, sjw, tseg1, tseg2) succeeds exactly when
\* 1 <= prescaler <= 64, 1 <= sjw <= 4, 1 <= tseg1 <= 16 and 1 <= tseg2 <= 8;
\* on success the four fields are the four arguments, on failure no timing
\* value is returned; (1,1,1,1) and (64,4,16,8) are accepted and a value one
\* unit outside a single bound is rejected.
C8_ClassicalTimingValidated ==
    IsCanBitTimingNew =>
        /\ IsOk(call.ret) <=> InClassicalRanges(call.args)
        /\ IsOk(call.ret) =>
              /\ call.ret.val.prescaler = call.args[1]
              /\ call.ret.val.sjw = call.args[2]
              /\ call.ret.val.tseg1 = call.args[3]
              /\ call.ret.val.tseg2 = call.args[4]
        /\ IsErr(call.ret) => "val" \notin DOMAIN call.ret
        /\ call.args \in {<<1, 1, 1, 1>>, <<64, 4, 16, 8>>} => IsOk(call.ret)
        /\ call.args \in {<<0, 1, 1, 1>>, <<65, 1, 1, 1>>, <<1, 0, 1, 1>>, <<1, 5, 1, 1>>,
                           <<1, 1, 0, 1>>, <<1, 1, 17, 1>>, <<1, 1, 1, 0>>, <<1, 1, 1, 9>>}
              => IsErr(call.ret)

C8_Witness ==
    /\ IsCanBitTimingNew
    /\ call.args = <<64, 4, 16, 8>>
    /\ IsOk(call.ret)
    /\ call.ret.val.tseg1 = 16

\* the FD boundary table as the claim states it
FdMin == <<1, 1, 1, 1, 1, 1, 1, 1>>
FdMax == <<1024, 128, 256, 128, 1024, 16, 32, 16>>

InFdRanges(x) == \A i \in 1..8 : FdMin[i] <= x[i] /\ x[i] <= FdMax[i]

\* all of x valid but x[i], which is one unit outside its range
OneUnitOutside(x) ==
    \E i \in 1..8 :
        /\ x[i] = FdMin[i] - 1 \/ x[i] = FdMax[i] + 1
        /\ \A j \in (1..8) \ {i} : FdMin[j] <= x[j] /\ x[j] <= FdMax[j]

\* C9: CanFdBitTiming::new succeeds exactly when all eight parameters lie in
\* their inclusive ranges (nominal 1..=1024, 1..=128, 1..=256, 1..=128; data
\* 1..=1024, 1..=16, 1..=32, 1..=16); on success the eight fields are the
\* arguments; with the other seven valid, a value one unit outside the range
\* of a single parameter is rejected.
C9_FdTimingValidated ==
    IsCanFdBitTimingNew =>
        /\ IsOk(call.ret) <=> InFdRanges(call.args)
        /\ IsOk(call.ret) =>
              <<call.ret.val.nom_prescaler, call.ret.val.nom_sjw,
                call.ret.val.nom_tseg1, call.ret.val.nom_tseg2,
                call.ret.val.data_prescaler, call.ret.val.data_sjw,
                call.ret.val.data_tseg1, call.ret.val.data_tseg2>> = call.args
        /\ IsErr(call.ret) => "val" \notin DOMAIN call.ret
        /\ OneUnitOutside(call.args) => IsErr(call.ret)

C9_Witness ==
    /\ IsCanFdBitTimingNew
    /\ call.args = <<1024, 128, 256, 128, 1024, 17, 32, 16>>
    /\ IsErr(call.ret)

(***************************************************************************)
(* Claims about equality, checked under SpecFrames.                        *)
(***************************************************************************)
IsCompare == call.op = "=="

\* the length field of a CanFrame, the DLC of a CanFdFrame
LengthField(f) == IF f.kind = "CanFrame" THEN f.LEN ELSE f.DLC

\* the number of meaningful bytes: the length field, the decoded DLC
MeaningfulLength(f) == IF f.kind = "CanFrame" THEN f.LEN ELSE CanFdFrame_len(f)

\* the bytes of the buffers at indices below the meaningful length agree
MeaningfulBytesEqual(x, y) ==
    \A i \in 1..Len(x.DATA) : i <= MeaningfulLength(x) => x.DATA[i] = y.DATA[i]

HeadersEqual(x, y) ==
    /\ x.ID = y.ID
    /\ LengthField(x) = LengthField(y)
    /\ x.MSGTYPE = y.MSGTYPE

\* C7: for both frame types, two frames compare equal if and only if their
\* stored identifier, their length field (CanFrame) or DLC (CanFdFrame), their
\* flag byte and the bytes below the meaningful length are all equal; the
\* bytes of the buffer at or beyond the meaningful length never influence the
\* result, and frames whose identifier, length/DLC or flags differ are unequal.
C7_EqualityIgnoresPadding ==
    IsCompare =>
        /\ (call.ret = "true") <=>
              (HeadersEqual(call.self, call.other)
               /\ MeaningfulBytesEqual(call.self, call.other))
        /\ ~HeadersEqual(call.self, call.other) => call.ret = "false"

\* what holds of the comparison: it is as C7 says whenever it returns, and it
\* panics only on two CanFrames whose equal length field exceeds the buffer
EqualityWhenItReturns ==
    IsCompare =>
        /\ call.ret # "panic" =>
              /\ (call.ret = "true") <=>
                    (HeadersEqual(call.self, call.other)
                     /\ MeaningfulBytesEqual(call.self, call.other))
              /\ ~HeadersEqual(call.self, call.other) => call.ret = "false"
        /\ call.ret = "panic" =>
              /\ call.self.kind = "CanFrame"
              /\ HeadersEqual(call.self, call.other)
              /\ call.self.LEN > 8

\* two frames that differ only in padding compare equal
PaddingIgnoredWitness ==
    /\ IsCompare
    /\ call.ret = "true"
    /\ call.self.DATA # call.other.DATA

(***************************************************************************)
(* Claims about timing values in use, checked under SpecTimingUse.         *)
(***************************************************************************)
\* C10: every CanBitTiming / CanFdBitTiming value a caller holds has all of
\* its parameters inside the boundary table, for its whole lifetime.
C10_TimingAlwaysValid ==
    /\ timing.kind = "CanBitTiming" =>
          InClassicalRanges(<<timing.prescaler, timing.sjw, timing.tseg1, timing.tseg2>>)
    /\ timing.kind = "CanFdBitTiming" =>
          InFdRanges(<<timing.nom_prescaler, timing.nom_sjw, timing.nom_tseg1,
                       timing.nom_tseg2, timing.data_prescaler, timing.data_sjw,
                       timing.data_tseg1, timing.data_tseg2>>)

(***************************************************************************)
(* Claims about the mode accessors of constructed FD frames, checked under *)
(* SpecNew.                                                                *)
(***************************************************************************)
\* C11: a CanFdFrame constructed with mode Standard reports
\* is_standard_frame() and not is_extended_frame(); one constructed with mode
\* Extended reports is_extended_frame() and not is_standard_frame().
C11_FdModeAccessors ==
    (IsCanFdFrameNew /\ IsOk(call.ret)) =>
        /\ CanFdFrame_is_standard_frame(call.ret.val) = (call.msg_type = "Standard")
        /\ CanFdFrame_is_extended_frame(call.ret.val) = (call.msg_type = "Extended")

\* what holds of the FD mode accessors: is_extended_frame() tells the mode,
\* is_standard_frame() is false of every constructed frame
FdModeAccessorsAsCoded ==
    (IsCanFdFrameNew /\ IsOk(call.ret)) =>
        /\ ~CanFdFrame_is_standard_frame(call.ret.val)
        /\ CanFdFrame_is_extended_frame(call.ret.val) = (call.msg_type = "Extended")

(***************************************************************************)
(* Claims about the accessors of frames the caller constructed or          *)
(* received, checked under SpecSocket.                                     *)
(***************************************************************************)
IsDone(op) == call.op = op /\ call.pc = "done"

\* a call of one of the six operations is in progress or has returned
IsDispatch == call.op \in {"recv", "recv_frame", "recv_fd", "recv_fd_frame", "send", "send_fd"}

\* the classical frames the caller or the operation in progress holds
ClassicFramesHeld ==
    IF IsCanFrameNew /\ IsOk(call.ret) THEN {call.ret.val}
    ELSE IF call.op \in {"recv", "recv_frame", "send"} THEN {call.frame}
    ELSE {}

\* the FD frames the caller or the operation in progress holds
FdFramesHeld ==
    IF IsCanFdFrameNew /\ IsOk(call.ret) THEN {call.ret.val}
    ELSE IF call.op \in {"recv_fd", "recv_fd_frame", "send_fd"} THEN {call.frame}
    ELSE {}

\* bit number n (0 = least significant) of the byte x is set
BitSet(x, n) == (x \div (2 ^ n)) % 2 = 1

\* the frame with its mode bit flipped
OtherMode(f) ==
    [f EXCEPT !.MSGTYPE = IF BitSet(@, 1) THEN @ - 2 ELSE @ + 2]

\* C12: of every classical frame, constructed or written by a receive with
\* any flag byte, exactly one of is_standard_frame() and is_extended_frame()
\* is true; a frame constructed Standard reports is_standard_frame(), one
\* constructed Extended reports is_extended_frame(); is_error_frame() and
\* is_echo_frame() are each their own flag bit, whatever the mode bit is.
C12_ClassicModeExclusive ==
    /\ \A f \in ClassicFramesHeld :
           /\ CanFrame_is_standard_frame(f) # CanFrame_is_extended_frame(f)
           /\ CanFrame_is_error_frame(f) = BitSet(f.MSGTYPE, 6)
           /\ CanFrame_is_echo_frame(f) = BitSet(f.MSGTYPE, 5)
           /\ CanFrame_is_error_frame(OtherMode(f)) = CanFrame_is_error_frame(f)
           /\ CanFrame_is_echo_frame(OtherMode(f)) = CanFrame_is_echo_frame(f)
    /\ (IsCanFrameNew /\ IsOk(call.ret)) =>
           /\ CanFrame_is_standard_frame(call.ret.val) = (call.msg_type = "Standard")
           /\ CanFrame_is_extended_frame(call.ret.val) = (call.msg_type = "Extended")

\* a receive returned an extended frame with the error and echo bits set
C12_Witness ==
    /\ IsDone("recv_frame")
    /\ IsOk(call.ret)
    /\ call.ret.val.MSGTYPE = 98
    /\ CanFrame_is_extended_frame(call.ret.val)
    /\ ~CanFrame_is_standard_frame(call.ret.val)
    /\ CanFrame_is_error_frame(call.ret.val)
    /\ CanFrame_is_echo_frame(call.ret.val)

\* the identifier a frame holding <f.ID> and <f.MSGTYPE> is to report
RemaskedByMode(f) ==
    IF BitSet(f.MSGTYPE, 1)
    THEN [hi |-> f.ID.hi % 8192, lo |-> f.ID.lo]
    ELSE [hi |-> 0, lo |-> f.ID.lo % 2048]

\* C13: for a frame of either type holding any identifier and any flag byte
\* (values written by a native receive included), can_id() is the stored
\* identifier & 0x7FF when the extended bit is clear and & 0x1FFFFFFF when it
\* is set; can_id() of a standard frame never exceeds 0x7FF.
C13_ReadTimeRemask ==
    /\ \A f \in ClassicFramesHeld : CanFrame_can_id(f) = RemaskedByMode(f)
    /\ \A f \in FdFramesHeld : CanFdFrame_can_id(f) = RemaskedByMode(f)

\* what holds of can_id(): the classical frame re-masks by its mode, the FD
\* frame applies the extended mask whatever its mode
RemaskAsCoded ==
    /\ \A f \in ClassicFramesHeld : CanFrame_can_id(f) = RemaskedByMode(f)
    /\ \A f \in FdFramesHeld :
           CanFdFrame_can_id(f) = [hi |-> f.ID.hi % 8192, lo |-> f.ID.lo]

(***************************************************************************)
(* Claims about the dispatch operations, checked under SpecSocket.         *)
(***************************************************************************)
\* the native calls the operation in progress has made are exactly one call
\* of its entry point with the transport's handle
OneNativeCall ==
    /\ Len(call.native_calls) = 1
    /\ call.native_calls[1].entry =
           (CASE call.op \in {"recv", "recv_frame"} -> "CAN_Read"
              [] call.op \in {"recv_fd", "recv_fd_frame"} -> "CAN_ReadFD"
              [] call.op = "send" -> "CAN_Write"
              [] call.op = "send_fd" -> "CAN_WriteFD")
    /\ call.native_calls[1].handle = call.handle

C15_StatusMappingTotal ==
    (IsDispatch /\ call.pc = "done") =>
        /\ call.ret.tag \in {"Ok", "Err"}
        /\ (call.error_code = 0) => IsOk(call.ret)
        /\ (call.error_code = 0 /\ call.op \in {"send", "send_fd"}) => call.ret = Ok(<< >>)
        /\ (call.error_code \in {32, 64}) => call.ret = Err([CanError |-> call.error_code])
        /\ (call.error_code \notin {0, 32, 64}) => call.ret = Err([CanError |-> "Unknown"])

\* the Standard frame 0x123 [0, 1, 2] was sent, the native call returned the
\* ok code and send returned Ok(())
C15_Witness ==
    /\ IsDone("send")
    /\ CanFrame_can_id(call.frame) = U32(0, 291)
    /\ CanFrame_is_standard_frame(call.frame)
    /\ CanFrame_data(call.frame) = <<0, 1, 2>>
    /\ call.error_code = 0
    /\ call.ret = Ok(<< >>)

\* an operation returned Unknown for a status code that is not recognised
UnknownCodeWitness ==
    /\ IsDone("recv_fd")
    /\ call.error_code = 65535
    /\ call.ret = Err([CanError |-> "Unknown"])

IsRecv == call.op \in {"recv", "recv_frame", "recv_fd", "recv_fd_frame"}

\* the frame the receive in progress started from: identifier 0, Standard,
\* empty payload, of the type the operation returns
StartedFromDefault(f) ==
    /\ f.ID = U32(0, 0)
    /\ f.MSGTYPE = 0
    /\ IF call.op \in {"recv", "recv_frame"}
       THEN f.kind = "CanFrame" /\ f.LEN = 0 /\ f.DATA = [i \in 1..8 |-> 0]
       ELSE f.kind = "CanFdFrame" /\ f.DLC = 0 /\ f.DATA = [i \in 1..64 |-> 0]

\* what the caller is to get from a receive whose native call returned ok
WhatNativeWrote ==
    LET frame == IF call.out.wrote THEN call.out.msg ELSE call.native_calls[1].msg
        stamp == IF call.out.wrote THEN call.out.timestamp
                 ELSE IF call.op = "recv" THEN [micros |-> 0, millis |-> 0, millis_overflow |-> 0]
                 ELSE 0
    IN  IF call.op \in {"recv", "recv_fd"} THEN <<frame, stamp>> ELSE frame

ReceiveFailedWitness ==
    /\ IsDone("recv_fd_frame")
    /\ call.error_code = 32
    /\ call.out.wrote
    /\ call.ret = Err([CanError |-> 32])

(***************************************************************************)
(* Claims about the FD and BRS flags, checked under SpecNew.               *)
(***************************************************************************)
\* the frame CanFdFrame::new returns for the arguments of the call with fd
\* and brs both false
WithoutFdBrs == CanFdFrame_new(call.can_id, call.msg_type, call.data, FALSE, FALSE).val

\* C17: for every identifier, mode, payload of at most 64 bytes and every
\* fd / brs combination, the frame CanFdFrame::new returns has
\* is_fd_frame() = fd, has the BRS bit set exactly when brs is true, and has
\* the is_extended_frame(), is_error_frame(), is_echo_frame(), can_id(),
\* dlc() and data() of the frame constructed with fd = brs = false.
C17_FdBrsIndependent ==
    (IsCanFdFrameNew /\ Len(call.data) <= 64) =>
        /\ IsOk(call.ret)
        /\ CanFdFrame_is_fd_frame(call.ret.val) = call.fd
        /\ BitSet(call.ret.val.MSGTYPE, 3) = call.brs
        /\ CanFdFrame_is_extended_frame(call.ret.val) = CanFdFrame_is_extended_frame(WithoutFdBrs)
        /\ CanFdFrame_is_extended_frame(call.ret.val) = (call.msg_type = "Extended")
        /\ CanFdFrame_is_error_frame(call.ret.val) = CanFdFrame_is_error_frame(WithoutFdBrs)
        /\ CanFdFrame_is_echo_frame(call.ret.val) = CanFdFrame_is_echo_frame(WithoutFdBrs)
        /\ ~CanFdFrame_is_error_frame(call.ret.val)
        /\ ~CanFdFrame_is_echo_frame(call.ret.val)
        /\ CanFdFrame_can_id(call.ret.val) = CanFdFrame_can_id(WithoutFdBrs)
        /\ CanFdFrame_dlc(call.ret.val) = CanFdFrame_dlc(WithoutFdBrs)
        /\ ~CanFdFrame_data_panics(call.ret.val)
        /\ CanFdFrame_data(call.ret.val) = CanFdFrame_data(WithoutFdBrs)

\* an Extended frame constructed with brs and without fd
C17_Witness ==
    /\ IsCanFdFrameNew
    /\ call.msg_type = "Extended"
    /\ ~call.fd
    /\ call.brs
    /\ Len(call.data) = 12
    /\ IsOk(call.ret)
    /\ call.ret.val.MSGTYPE = 10
    /\ ~CanFdFrame_is_fd_frame(call.ret.val)

(***************************************************************************)
(* Claims about writing a classical frame in place, checked under          *)
(* SpecMutData.                                                            *)
(***************************************************************************)
\* dlc() is at most 8 and the buffer is zero from index dlc() on
PaddingZero(f) ==
    /\ CanFrame_dlc(f) <= 8
    /\ Len(f.DATA) = 8
    /\ \A i \in 0..7 : i >= CanFrame_dlc(f) => f.DATA[i + 1] = 0

\* C18: every CanFrame made by CanFrame::new or CanFrame::default and then
\* changed only by writes through mut_data(), and every copy of it, has
\* dlc() <= 8 and zero bytes from index dlc() on; a write through mut_data()
\* changes only bytes at indices below dlc() and leaves identifier, flags
\* and length as they were.
C18_ClassicFrameInvariant ==
    /\ [](\A f \in {a, b} : f # NoFrame => PaddingZero(f))
    /\ [][(a # NoFrame /\ a' # NoFrame) =>
             /\ a'.ID = a.ID
             /\ a'.MSGTYPE = a.MSGTYPE
             /\ a'.LEN = a.LEN
             /\ \A i \in 0..7 : i >= CanFrame_dlc(a) => a'.DATA[i + 1] = a.DATA[i + 1]]_vars

\* a frame of 2 bytes whose two bytes were overwritten, and a copy of it taken
\* after the first write
C18_Witness ==
    /\ a # NoFrame
    /\ b # NoFrame
    /\ a.LEN = 2
    /\ a.DATA = <<255, 255, 0, 0, 0, 0, 0, 0>>
    /\ b.DATA = <<255, 2, 0, 0, 0, 0, 0, 0>>

\* a write at index dlc() panicked and left the frame as it was
WriteOutsideWitness ==
    /\ call.op = "mut_data"
    /\ a # NoFrame
    /\ call.index = a.LEN
    /\ call.ret = Err("panic")

(***************************************************************************)
(* Claims about the DLC codec, checked under SpecCodec.                    *)
(***************************************************************************)
\* the lengths at which the DLC of a payload longer than 8 bytes goes up by one
DlcSteps == {9, 13, 17, 21, 25, 33, 49}

\* the lengths the DLC values 9 .. 15 stand for
LengthOfDlc == <<12, 16, 20, 24, 32, 48, 64>>

\* C19: calc_dlc maps n to n for 0..=8, to 9 for 9..=12, 10 for 13..=16, 11
\* for 17..=20, 12 for 21..=24, 13 for 25..=32, 14 for 33..=48, 15 for
\* 49..=64 and 15 for every n above 64; len() maps the DLC values 0..=8 to
\* themselves and 9..15 to 12, 16, 20, 24, 32, 48, 64; the DLC is always in
\* 0..=15; encode(9) = 9, decode(9) = 12, encode(25) = 13, decode(13) = 32.
C19_CodecTable ==
    /\ call.op = "calc_dlc" =>
           /\ call.ret \in 0..15
           /\ call.len <= 8 => call.ret = call.len
           /\ call.len > 8 => call.ret = 8 + Cardinality({n \in DlcSteps : n <= call.len})
           /\ call.len > 64 => call.ret = 15
           /\ call.len = 9 => call.ret = 9
           /\ call.len = 25 => call.ret = 13
    /\ (call.op = "len" /\ call.dlc <= 15) =>
           /\ call.dlc <= 8 => call.ret = call.dlc
           /\ call.dlc > 8 => call.ret = LengthOfDlc[call.dlc - 8]
           /\ call.dlc = 9 => call.ret = 12
           /\ call.dlc = 13 => call.ret = 32

\* calc_dlc was called with a length above 64 and returned 15
C19_Witness ==
    /\ call.op = "calc_dlc"
    /\ call.len = 100
    /\ call.ret = 15

\* len() of a frame holding DLC 13 returned 32
DecodeWitness ==
    /\ call.op = "len"
    /\ call.dlc = 13
    /\ call.ret = 32

(***************************************************************************)
(* Claims about the DLC byte of received FD frames, checked under          *)
(* SpecSocket.                                                             *)
(***************************************************************************)
\* C20: for every DLC byte 0..=255 a CanFdFrame holds (values above 15
\* written by a native receive included) len() is one of 0..8, 12, 16, 20,
\* 24, 32, 48, 64 and at most 64, so the slices of data() and mut_data()
\* are inside the 64-byte buffer.
C20_FdLenBounded ==
    \A f \in FdFramesHeld :
        /\ CanFdFrame_len(f) \in (0..8) \cup {12, 16, 20, 24, 32, 48, 64}
        /\ CanFdFrame_len(f) <= 64
        /\ Len(f.DATA) = 64
        /\ ~CanFdFrame_data_panics(f)
        /\ ~CanFdFrame_mut_data_panics(f)
        /\ Len(CanFdFrame_data(f)) = CanFdFrame_len(f)

\* recv_fd_frame returned a frame whose DLC byte is 200; its data() is the
\* whole buffer
C20_Witness ==
    /\ IsDone("recv_fd_frame")
    /\ IsOk(call.ret)
    /\ call.ret.val.DLC = 200
    /\ CanFdFrame_len(call.ret.val) = 64
    /\ CanFdFrame_data(call.ret.val) = call.ret.val.DATA

(***************************************************************************)
(* Claims about the length byte of received classical frames, checked      *)
(* under SpecSocket.                                                       *)
(***************************************************************************)
\* recv or recv_frame has returned a frame
ReturnedClassicFrame ==
    /\ IsDispatch
    /\ call.op \in {"recv", "recv_frame"}
    /\ call.pc = "done"
    /\ IsOk(call.ret)

\* the frame recv or recv_frame returned
TheClassicFrame == IF call.op = "recv" THEN call.ret.val[1] ELSE call.ret.val

\* C21: for every classical frame recv or recv_frame returns after a
\* successful native read, whatever byte the native call wrote into the
\* length field, data() and mut_data() are slices of exactly dlc() bytes
\* inside the 8-byte buffer (neither indexes out of bounds), and comparing
\* the frame with a frame obtained the same way does not fail.
C21_ClassicSliceInBounds ==
    ReturnedClassicFrame =>
        /\ ~CanFrame_data_panics(TheClassicFrame)
        /\ ~CanFrame_mut_data_panics(TheClassicFrame)
        /\ CanFrame_dlc(TheClassicFrame) <= Len(TheClassicFrame.DATA)
        /\ Len(CanFrame_data(TheClassicFrame)) = CanFrame_dlc(TheClassicFrame)
        /\ CanFrame_eq(TheClassicFrame, TheClassicFrame) # "panic"

\* what holds of a received classical frame: the slices are in bounds and ==
\* returns exactly when the length byte is at most 8
ClassicSliceAsCoded ==
    ReturnedClassicFrame =>
        /\ CanFrame_data_panics(TheClassicFrame) = (TheClassicFrame.LEN > 8)
        /\ CanFrame_mut_data_panics(TheClassicFrame) = (TheClassicFrame.LEN > 8)
        /\ (CanFrame_eq(TheClassicFrame, TheClassicFrame) = "panic") = (TheClassicFrame.LEN > 8)
        /\ (TheClassicFrame.LEN <= 8) =>
               Len(CanFrame_data(TheClassicFrame)) = CanFrame_dlc(TheClassicFrame)

====
